---- MODULE Spec2Model ----
(***************************************************************************)
(* Akvamanas water-level forecasting engine (backend/utils/regression.js)  *)
(* and the request handlers that train and run it (backend/server.js).     *)
(*                                                                         *)
(* Conventions of the model                                                *)
(*  - A JavaScript string is a tuple of one-character strings, so that     *)
(*    String.prototype.trim can be modelled by what it does.               *)
(*  - null / undefined is None (the empty tuple); a present value v is     *)
(*    Some(v) (a one-element tuple).                                       *)
(*  - An IEEE double is a fixed-point number: an integer count of          *)
(*    hundredths ("centi") unless a definition says otherwise; every       *)
(*    operation rounds toward minus infinity onto that grid.               *)
(*  - A Date is an integer count of whole hours since the epoch (UTC);     *)
(*    its ISO date (toISOString().slice(0, 10)) is the day number          *)
(*    hour \div 24, and getHours() is (hour + tz) % 24 for the process's   *)
(*    offset tz of local time from UTC, in whole hours.                    *)
(***************************************************************************)
EXTENDS Integers, Sequences, FiniteSets, TLC

VARIABLES
    pc,             \* position of the run
    currentInputs,  \* argument: merged "now" observation per station
    settings,       \* argument: station metadata rows
    model,          \* argument: regression model {stations, trainedAt}
    hydroAux,       \* argument: None or Some({network, rating, basins})
    now,            \* new Date(), truncated to the hour (UTC hours)
    tz,             \* offset of local time from UTC, hours
    graph,          \* buildGraph(hydroAux.network)
    order,          \* topoOrDepthFirst(graph), as indices into graph
    lateralByCode,  \* station code -> lateral inflow
    segParams,      \* keyEdge -> {K, X}
    prev,           \* keyEdge -> {in, out} of the previous step
    Qstate,         \* station code -> discharge
    t,              \* loop counter of the 72-step simulation
    rows,           \* hourly forecast rows
    tableAcc,       \* station code -> daily snapshot [0..2]
    series,         \* station code -> chart points
    result,         \* None, or Some of what the run returned
    branch,         \* which path of forecastWaterLevels ran
    manifest,       \* STATE.manifest: historical paths, current water / precip
    fileRows,       \* the disk: path -> rows of the uploaded workbook
    modelFile,      \* model/model.json: None, or Some of the persisted model
    lastForecast,   \* STATE.lastForecastPath and STATE.lastForecastJson
    workbooks,      \* the forecast workbooks written to the output directory
    jobs,           \* pending continuations of /api/train handlers (FIFO)
    draining,       \* TRUE once a continuation of this turn has run
    response        \* the response sent last, None before the first

\* the state of the server around a run
srv == << manifest, fileRows, modelFile, lastForecast, workbooks, jobs, draining,
          response >>

vars == << pc, currentInputs, settings, model, hydroAux, now, tz, graph, order,
           lateralByCode, segParams, prev, Qstate, t, rows, tableAcc, series,
           result, branch, srv >>

-----------------------------------------------------------------------------
(* null and maps *)

None == << >>
Some(v) == << v >>
IsNull(x) == x = None
Val(x) == x[1]

\* a ?? d
Coalesce(x, d) == IF IsNull(x) THEN d ELSE Val(x)

\* Map.prototype.get: None when the key is absent
MapGet(m, k) == IF k \in DOMAIN m THEN Some(m[k]) ELSE None

\* Map.prototype.set
MapSet(m, k, v) == [x \in (DOMAIN m) \cup {k} |-> IF x = k THEN v ELSE m[x]]

EmptyMap == [x \in {} |-> 0]

Max(a, b) == IF a >= b THEN a ELSE b
Min(a, b) == IF a <= b THEN a ELSE b

RECURSIVE SeqSum(_)
SeqSum(s) == IF s = << >> THEN 0 ELSE Head(s) + SeqSum(Tail(s))

-----------------------------------------------------------------------------
(* strings *)

RECURSIVE TrimStart(_)
TrimStart(s) == IF s # << >> /\ Head(s) = " " THEN TrimStart(Tail(s)) ELSE s

RECURSIVE TrimEnd(_)
TrimEnd(s) ==
    IF s # << >> /\ s[Len(s)] = " " THEN TrimEnd(SubSeq(s, 1, Len(s) - 1)) ELSE s

\* String(x || "").trim()
Trim(s) == TrimEnd(TrimStart(s))

-----------------------------------------------------------------------------
(* graph helpers *)

\* keyEdge(a, b): `${a.trim()}->${b.trim()}`; the pair of trimmed codes
keyEdge(a, b) == << Trim(a), Trim(b) >>

\* buildGraph: trim both endpoints, keep the reaches with two non-empty ones
buildGraph(reaches) ==
    SelectSeq([i \in 1..Len(reaches) |->
                  [reaches[i] EXCEPT !.from_code = Trim(@), !.to_code = Trim(@)]],
              LAMBDA e : e.from_code # << >> /\ e.to_code # << >>)

\* indeg.has(c): some edge ends at c
HasIncoming(g, c) == \E i \in 1..Len(g) : g[i].to_code = c

\* new Set(reaches.map(from_code).filter(not in indeg)), in insertion order
RECURSIVE Dedup(_)
Dedup(s) ==
    IF s = << >> THEN << >>
    ELSE LET r == Dedup(SubSeq(s, 1, Len(s) - 1))
             x == s[Len(s)]
         IN IF \E i \in 1..Len(r) : r[i] = x THEN r ELSE Append(r, x)

Sources(g) ==
    Dedup(SelectSeq([i \in 1..Len(g) |-> g[i].from_code],
                    LAMBDA c : ~HasIncoming(g, c)))

\* dfs(node): the loop "for (const e of reaches)" from position i on, with
\* st = [used, ordered]; an edge is its index in reaches (object identity).
RECURSIVE dfs(_, _, _, _)
dfs(g, node, i, st) ==
    IF i > Len(g) THEN st
    ELSE IF i \in st.used \/ g[i].from_code # node THEN dfs(g, node, i + 1, st)
    ELSE dfs(g, node, i + 1,
             dfs(g, g[i].to_code, 1,
                 [used |-> st.used \cup {i}, ordered |-> Append(st.ordered, i)]))

RECURSIVE dfsAll(_, _, _)
dfsAll(g, srcs, st) ==
    IF srcs = << >> THEN st
    ELSE dfsAll(g, Tail(srcs), dfs(g, Head(srcs), 1, st))

\* a plausible slip: the leftover loop is forgotten
topoOrDepthFirstMutNoRest(g) ==
    dfsAll(g, Sources(g), [used |-> {}, ordered |-> << >>]).ordered

\* a plausible slip: the traversal from the sources is skipped (input order)
topoOrDepthFirstMutInputOrder(g) == [i \in 1..Len(g) |-> i]

topoOrDepthFirst(g) ==
    LET st == dfsAll(g, Sources(g), [used |-> {}, ordered |-> << >>])
    IN st.ordered \o SelectSeq([i \in 1..Len(g) |-> i], LAMBDA i : i \notin st.used)

-----------------------------------------------------------------------------
(* arithmetic on the fixed-point grid *)

RECURSIVE IPow(_, _)
IPow(x, n) == IF n <= 0 THEN 1 ELSE x * IPow(x, n - 1)

\* largest r in lo..hi with r^d <= y (bisection)
RECURSIVE IRootBS(_, _, _, _)
IRootBS(y, d, lo, hi) ==
    IF lo >= hi THEN lo
    ELSE LET mid == (lo + hi + 1) \div 2
         IN IF IPow(mid, d) <= y THEN IRootBS(y, d, mid, hi)
            ELSE IRootBS(y, d, lo, mid - 1)

\* floor of the d-th root of y >= 0; the upper end keeps mid^d inside 32 bits
IRoot(y, d) ==
    IF d = 1 THEN y
    ELSE IRootBS(y, d, 0, Min(y, IF d = 2 THEN 46340 ELSE IF d = 3 THEN 1290 ELSE 73))

\* Math.pow(x, n/d) for x >= 0 in centi, result in centi
PowC(x, n, d) ==
    IF d >= n THEN IRoot(IPow(x, n) * IPow(100, d - n), d)
    ELSE IRoot(IPow(x, n) \div IPow(100, n - d), d)

\* Math.round(stage_cm * 10) / 10: centi -> tenths, half up
Round1(x) == (x + 5) \div 10

-----------------------------------------------------------------------------
(* rating curves: rc = [h0_cm (centi), a (milli), b (<<num, den>>)], each
   optional; defaults a = 0.03, b = 1.6 *)

DefaultA == 30
DefaultB == << 8, 5 >>

\* stageToQ_cm(h_cm, rc): h_cm and rc optional; discharge in centi m3/s
stageToQ_cm(h_cm, rc) ==
    IF IsNull(rc) THEN 0
    ELSE LET h == Max(Coalesce(h_cm, 0) - Coalesce(Val(rc).h0_cm, 0), 0)
             b == Coalesce(Val(rc).b, DefaultB)
         IN (Coalesce(Val(rc).a, DefaultA) * PowC(h, b[1], b[2])) \div 1000

\* qToStage_cm(Q, rc): stage in centi cm
qToStage_cm(Q, rc) ==
    IF IsNull(rc) THEN 0
    ELSE LET a  == Coalesce(Val(rc).a, DefaultA)
             b  == Coalesce(Val(rc).b, DefaultB)
             h0 == Coalesce(Val(rc).h0_cm, 0)
         IN IF a <= 0 \/ b[1] <= 0 THEN h0
            ELSE h0 + PowC((Max(Q, 0) * 1000) \div a, b[2], b[1])

-----------------------------------------------------------------------------
(* routing *)

\* celerity_mps(Q, width, depth, slope, n): width and depth in milli m, slope
\* in 1e-6, n in milli; result in centi m/s.  R^(2/3) is the cube root of R^2,
\* sqrt(9.81 depth) in centi is the root of 981 * depth_milli / 10.
celerity_mps(Q, width, depth, slope, n) ==
    LET R  == (width * depth) \div (width + 2 * depth)
        v  == (IRoot(Max(R, 0) * Max(R, 0), 3) * IRoot(Max(slope, 1), 2)) \div n
    IN Max(v + IRoot(Max((981 * depth) \div 10, 0), 2), 10)

\* dt = 3600 (1 h)
Dt == 3600
\* K >= 1 h
MinK == 3600
\* X = 0.2, in tenths
X10 == 2

\* a plausible slip: the result is not floored at zero
muskingumStepMutNoClamp(Qin_up, Qprev_seg, K, X, dt) ==
    LET denom == 10 * K - K * X + 5 * dt
        C0    == 0 - K * X + 5 * dt
        C1    == K * X + 5 * dt
        C2    == 10 * K - K * X - 5 * dt
    IN (C0 * Qin_up + C1 * Qprev_seg.in + C2 * Qprev_seg.out) \div denom

\* a plausible slip: C2 is formed with a whole dt
muskingumStepMutWholeDt(Qin_up, Qprev_seg, K, X, dt) ==
    LET denom == 10 * K - K * X + 5 * dt
        C0    == 0 - K * X + 5 * dt
        C1    == K * X + 5 * dt
        C2    == 10 * K - K * X - 10 * dt
        Qout  == (C0 * Qin_up + C1 * Qprev_seg.in + C2 * Qprev_seg.out) \div denom
    IN Max(Qout, 0)

\* muskingumStep(Qin_up, Qprev_seg, K, X, dt), X in tenths, all terms over
\* the common denominator 10 * (K - K X + 0.5 dt)
muskingumStep(Qin_up, Qprev_seg, K, X, dt) ==
    LET denom == 10 * K - K * X + 5 * dt
        C0    == 0 - K * X + 5 * dt
        C1    == K * X + 5 * dt
        C2    == 10 * K - K * X - 5 * dt
        Qout  == (C0 * Qin_up + C1 * Qprev_seg.in + C2 * Qprev_seg.out) \div denom
    IN Max(Qout, 0)

\* aggregateLatestPrecip: basin_name (as given, not trimmed) -> the maximum
\* non-null precipitation of the rows carrying that name
aggregateLatestPrecip(ci) ==
    LET names == {ci[i].basin_name : i \in {j \in 1..Len(ci) :
                     ci[j].basin_name # << >> /\ ~IsNull(ci[j].precipitation_mm)}}
        vals(nm) == {Val(ci[i].precipitation_mm) : i \in {j \in 1..Len(ci) :
                     ci[j].basin_name = nm /\ ~IsNull(ci[j].precipitation_mm)}}
    IN [nm \in names |-> CHOOSE v \in vals(nm) : \A w \in vals(nm) : w <= v]

-----------------------------------------------------------------------------
(* dates *)

\* Date.prototype.getHours() in a process whose local time is UTC + z
getHours(d, z) == (d + z) % 24

\* d.toISOString().slice(0, 10): the UTC calendar day
isoDate(d) == d \div 24

\* for (let i = 0; i < 72; i++)
Steps == 72

\* a plausible slip: the first timestamp is one hour after the base
datesMutFromOne(base, i) == base + i + 1

\* dates[i] = new Date(base.getTime() + i * 3600 * 1000)
dates(base, i) == base + i

-----------------------------------------------------------------------------
(* String.prototype.localeCompare on the characters the inputs use: letters
   compare by letter first (shorter prefix first), case breaks ties with
   lower case first; the space sorts before every letter *)

LowerChars == << " ", "a", "b", "c", "d", "n", "x", "y" >>
UpperChars == << " ", "A", "B", "C", "D", "N", "X", "Y" >>

PrimaryRank(ch) ==
    CHOOSE i \in 1..Len(LowerChars) : LowerChars[i] = ch \/ UpperChars[i] = ch
TertiaryRank(ch) ==
    IF \E i \in 2..Len(UpperChars) : UpperChars[i] = ch THEN 1 ELSE 0

\* lexicographic comparison of two integer sequences: -1, 0 or 1
RECURSIVE LexCmp(_, _)
LexCmp(a, b) ==
    IF a = << >> /\ b = << >> THEN 0
    ELSE IF a = << >> THEN -1
    ELSE IF b = << >> THEN 1
    ELSE IF Head(a) < Head(b) THEN -1
    ELSE IF Head(a) > Head(b) THEN 1
    ELSE LexCmp(Tail(a), Tail(b))

localeCompare(a, b) ==
    LET p == LexCmp([i \in 1..Len(a) |-> PrimaryRank(a[i])],
                    [i \in 1..Len(b) |-> PrimaryRank(b[i])])
    IN IF p # 0 THEN p
       ELSE LexCmp([i \in 1..Len(a) |-> TertiaryRank(a[i])],
                   [i \in 1..Len(b) |-> TertiaryRank(b[i])])

IntCmp(a, b) == IF a < b THEN -1 ELSE IF a > b THEN 1 ELSE 0

\* the comparator of rows.sort: station_code, then forecast_datetime (ISO
\* strings of one length compare as their instants)
rowCompare(a, b) ==
    LET c == localeCompare(a.station_code, b.station_code)
    IN IF c # 0 THEN c ELSE IntCmp(a.forecast_datetime, b.forecast_datetime)

\* the comparator of table.sort: river, then station
tableCompare(a, b) ==
    LET c == localeCompare(a.river, b.river)
    IN IF c # 0 THEN c ELSE localeCompare(a.station, b.station)

\* the comparator of the training sort: new Date(a.date) - new Date(b.date),
\* where new Date(null) is the epoch
dateCompare(a, b) == IntCmp(Coalesce(a.date, 0), Coalesce(b.date, 0))

Compare(kind, a, b) ==
    IF kind = "rows" THEN rowCompare(a, b)
    ELSE IF kind = "date" THEN dateCompare(a, b)
    ELSE tableCompare(a, b)

\* how many elements of the sorted b come strictly before x (bisection
\* between lo and hi)
RECURSIVE CountLess(_, _, _, _, _)
CountLess(kind, b, x, lo, hi) ==
    IF lo >= hi THEN lo
    ELSE LET mid == (lo + hi) \div 2
         IN IF Compare(kind, b[mid + 1], x) < 0 THEN CountLess(kind, b, x, mid + 1, hi)
            ELSE CountLess(kind, b, x, lo, mid)

\* Array.prototype.sort is stable: a merge sort whose merge puts an element
\* of the left run before the equal elements of the right run.  The merge
\* splits at the middle of the left run, which keeps the recursion shallow.
RECURSIVE Merge(_, _, _)
Merge(kind, a, b) ==
    IF a = << >> THEN b
    ELSE IF b = << >> THEN a
    ELSE LET m == (Len(a) + 1) \div 2
             c == CountLess(kind, b, a[m], 0, Len(b))
         IN Merge(kind, SubSeq(a, 1, m - 1), SubSeq(b, 1, c))
            \o << a[m] >>
            \o Merge(kind, SubSeq(a, m + 1, Len(a)), SubSeq(b, c + 1, Len(b)))

\* a plausible slip: the lists are returned in the order they were built
SortMutKeepOrder(kind, s) == s

RECURSIVE Sort(_, _)
Sort(kind, s) ==
    IF Len(s) <= 1 THEN s
    ELSE LET h == Len(s) \div 2
         IN Merge(kind, Sort(kind, SubSeq(s, 1, h)), Sort(kind, SubSeq(s, h + 1, Len(s))))

-----------------------------------------------------------------------------
(* forecastWaterLevels: shared prologue *)

\* the keys of nowByCode in insertion order: trimmed, non-empty, first
\* appearance
NowCodes(ci) ==
    Dedup(SelectSeq([i \in 1..Len(ci) |-> Trim(ci[i].station_code)],
                    LAMBDA c : c # << >>))

\* nowByCode.get(code): the last row of that trimmed code
NowRec(ci, code) ==
    ci[CHOOSE i \in 1..Len(ci) :
          /\ Trim(ci[i].station_code) = code
          /\ \A j \in (i + 1)..Len(ci) : Trim(ci[j].station_code) # code]

\* settingsByCode.get(code): None or Some(row), keyed by the trimmed code
SettingsGet(st, code) ==
    LET hit == {i \in 1..Len(st) : Trim(st[i].station_code) = code}
    IN IF hit = {} THEN None
       ELSE Some(st[CHOOSE i \in hit : \A j \in hit : j <= i])

\* a || b on strings: the first non-empty one
OrStr(a, b) == IF a # << >> THEN a ELSE b

\* pushPoint(code, r, tDate, stage_cm)
pushPoint(ser, st, code, r, tDate, stage_cm, z) ==
    LET s0 == SettingsGet(st, code)
        pt == [t            |-> tDate,
               hour         |-> getHours(tDate, z),
               wl_cm        |-> Round1(stage_cm),
               river_name   |-> OrStr(r.river_name,
                                      IF IsNull(s0) THEN << >> ELSE Val(s0).river_name),
               station_name |-> OrStr(r.station_name,
                                      IF IsNull(s0) THEN << >> ELSE Val(s0).station_name)]
    IN MapSet(ser, code, Append(IF code \in DOMAIN ser THEN ser[code] ELSE << >>, pt))

\* a plausible slip: the basin map is not asked for
UseHydroMutNoBasins(aux) ==
    /\ ~IsNull(aux)
    /\ Len(Val(aux).network) # 0
    /\ Cardinality(DOMAIN Val(aux).rating) # 0

\* the condition of the hydrologic path:
\* hydroAux?.network?.length && hydroAux?.rating?.size && hydroAux?.basins?.size
UseHydro(aux) ==
    /\ ~IsNull(aux)
    /\ Len(Val(aux).network) # 0
    /\ Cardinality(DOMAIN Val(aux).rating) # 0
    /\ Cardinality(DOMAIN Val(aux).basins) # 0

-----------------------------------------------------------------------------
(* forecastWaterLevels: hydrologic routing path *)

\* Map.get(c) ?? 0 and Map.get(c) || 0 on a map of numbers
QGet(Q, c) == IF c \in DOMAIN Q THEN Q[c] ELSE 0

CodeSet(ci) == {NowCodes(ci)[i] : i \in 1..Len(NowCodes(ci))}

\* Qnow: discharge of every station of nowByCode from its current stage
QnowOf(ci, aux) ==
    [c \in CodeSet(ci) |->
        stageToQ_cm(NowRec(ci, c).water_level_cm, MapGet(aux.rating, c))]

\* the first series point of every station: the observed stage at dates[0]
RECURSIVE FirstPoints(_, _, _, _, _, _)
FirstPoints(ser, st, ci, codes, base, z) ==
    IF codes = << >> THEN ser
    ELSE LET r == NowRec(ci, Head(codes))
         IN FirstPoints(pushPoint(ser, st, Head(codes), r, dates(base, 0),
                                  Coalesce(r.water_level_cm, 0), z),
                        st, ci, Tail(codes), base, z)

\* Pmm = PmmByBasin.get(basin) ?? r.precipitation_mm ?? 0
PmmOfMutStationFirst(agg, basin, r) ==
    IF ~IsNull(r.precipitation_mm) THEN Val(r.precipitation_mm)
    ELSE IF basin \in DOMAIN agg THEN agg[basin] ELSE 0

PmmOf(agg, basin, r) ==
    IF basin \in DOMAIN agg THEN agg[basin] ELSE Coalesce(r.precipitation_mm, 0)

\* lateralQ = baseflow + max(Pmm, 0) * runoffCoeff; runoff_coeff defaults to 0.2
lateralQ(ci, aux, r) ==
    LET basin       == Trim(r.basin_name)
        bp          == MapGet(aux.basins, basin)
        runoffCoeff == IF IsNull(bp) THEN 20 ELSE Coalesce(Val(bp).runoff_coeff, 20)
        baseflow    == IF IsNull(bp) THEN 0 ELSE Coalesce(Val(bp).baseflow_cms, 0)
        Pmm         == PmmOf(aggregateLatestPrecip(ci), basin, r)
    IN baseflow + (Max(Pmm, 0) * runoffCoeff) \div 100

\* the keys of segParams and prev
EdgeKeys(g) == {keyEdge(g[i].from_code, g[i].to_code) : i \in 1..Len(g)}

\* Map.set in a loop: the last edge of a key wins
LastEdge(g, key) ==
    g[CHOOSE i \in 1..Len(g) :
         /\ keyEdge(g[i].from_code, g[i].to_code) = key
         /\ \A j \in (i + 1)..Len(g) : keyEdge(g[j].from_code, g[j].to_code) # key]

\* K and X of one edge; defaults width 40 m, depth 3 m, n 0.035, slope 1e-4,
\* length 1 km
SegOf(e, Qnow) ==
    LET width == Coalesce(e.width_m, 40000)
        depth == Coalesce(e.depth_m, 3000)
        n     == Coalesce(e.n_mann, 35)
        slope == Max(Coalesce(e.slope_m_m, 100), 1)
        L     == Coalesce(e.length_km, 1) * 1000
        c     == celerity_mps(IF e.from_code \in DOMAIN Qnow THEN Qnow[e.from_code] ELSE 1000,
                              width, depth, slope, n)
    IN [K |-> Max((L * 100) \div c, MinK), X |-> X10]

segParamsOf(g, Qnow) == [k \in EdgeKeys(g) |-> SegOf(LastEdge(g, k), Qnow)]

\* prev.set(key, {in: Qnow.get(from) || 0, out: Qnow.get(to) || 0})
prevSeedMutZero(g, Qnow) == [k \in EdgeKeys(g) |-> [in |-> 0, out |-> 0]]

prevSeed(g, Qnow) ==
    [k \in EdgeKeys(g) |-> [in |-> QGet(Qnow, k[1]), out |-> QGet(Qnow, k[2])]]

\* a plausible slip: an edge reads its upstream discharge with what was
\* routed into that node earlier in the same step
RECURSIVE RouteEdgesMutReadsRouted(_, _, _, _, _, _)
RouteEdgesMutReadsRouted(g, ord, i, sp, Q, acc) ==
    IF i > Len(ord) THEN acc
    ELSE LET e        == g[ord[i]]
             edgeKey  == keyEdge(e.from_code, e.to_code)
             prm      == sp[edgeKey]
             Qin_up   == QGet(Q, e.from_code) + QGet(acc.QinAtNode, e.from_code)
             prevEdge == IF edgeKey \in DOMAIN acc.prev THEN acc.prev[edgeKey]
                         ELSE [in |-> Qin_up, out |-> QGet(Q, e.to_code)]
             Qout     == muskingumStep(Qin_up, prevEdge, prm.K, prm.X, Dt)
         IN RouteEdgesMutReadsRouted(g, ord, i + 1, sp, Q,
                [prev      |-> MapSet(acc.prev, edgeKey, [in |-> Qin_up, out |-> Qout]),
                 QinAtNode |-> MapSet(acc.QinAtNode, e.to_code,
                                      QGet(acc.QinAtNode, e.to_code) + Qout)])

\* the loop "for (const e of order)" from position i on; acc = [prev, QinAtNode]
RECURSIVE RouteEdges(_, _, _, _, _, _)
RouteEdges(g, ord, i, sp, Q, acc) ==
    IF i > Len(ord) THEN acc
    ELSE LET e        == g[ord[i]]
             edgeKey  == keyEdge(e.from_code, e.to_code)
             prm      == sp[edgeKey]
             Qin_up   == QGet(Q, e.from_code)
             prevEdge == IF edgeKey \in DOMAIN acc.prev THEN acc.prev[edgeKey]
                         ELSE [in |-> Qin_up, out |-> QGet(Q, e.to_code)]
             Qout     == muskingumStep(Qin_up, prevEdge, prm.K, prm.X, Dt)
         IN RouteEdges(g, ord, i + 1, sp, Q,
                [prev      |-> MapSet(acc.prev, edgeKey, [in |-> Qin_up, out |-> Qout]),
                 QinAtNode |-> MapSet(acc.QinAtNode, e.to_code,
                                      QGet(acc.QinAtNode, e.to_code) + Qout)])

\* Qnext = max(0, 0.2 * selfCarry + routedIn + lateral)
QnextOf(selfCarry, routedIn, lateral) ==
    Max(0, (20 * selfCarry) \div 100 + routedIn + lateral)

\* const idx = dayStr === day0 ? 0 : dayStr === day1 ? 1 : 2
DailyIdx(dayStr, day0, day1, day2) ==
    IF dayStr = day0 THEN 0 ELSE IF dayStr = day1 THEN 1 ELSE 2

RECURSIVE PushAll(_, _, _, _, _, _, _)
PushAll(ser, st, ci, codes, tDate, stage, z) ==
    IF codes = << >> THEN ser
    ELSE PushAll(pushPoint(ser, st, Head(codes), NowRec(ci, Head(codes)), tDate,
                           stage[Head(codes)], z),
                 st, ci, Tail(codes), tDate, stage, z)

\* the hydrologic path up to the time loop
StartHydro ==
    /\ pc = "start"
    /\ UseHydro(hydroAux)
    /\ LET aux  == Val(hydroAux)
           g    == buildGraph(aux.network)
           Qnow == QnowOf(currentInputs, aux)
       IN /\ graph' = g
          /\ order' = topoOrDepthFirst(g)
          /\ Qstate' = Qnow
          /\ series' = FirstPoints(EmptyMap, settings, currentInputs,
                                   NowCodes(currentInputs), now, tz)
          /\ lateralByCode' = [c \in CodeSet(currentInputs) |->
                                  lateralQ(currentInputs, aux, NowRec(currentInputs, c))]
          /\ segParams' = segParamsOf(g, Qnow)
          /\ prev' = prevSeed(g, Qnow)
    /\ t' = 0
    /\ rows' = << >>
    /\ tableAcc' = EmptyMap
    /\ pc' = "loop"
    /\ branch' = "hydro"
    /\ UNCHANGED << currentInputs, settings, model, hydroAux, now, tz, result, srv >>

\* one pass of "for (let t = 0; t < dates.length; t++)"
SimStep ==
    /\ pc = "loop"
    /\ t < Steps
    /\ LET aux        == Val(hydroAux)
           codes      == NowCodes(currentInputs)
           isEndOfDay == getHours(dates(now, t), tz) = 23
           routed     == RouteEdges(graph, order, 1, segParams, Qstate,
                                    [prev |-> prev, QinAtNode |-> EmptyMap])
           nextQ      == [c \in CodeSet(currentInputs) |->
                             QnextOf(QGet(Qstate, c), QGet(routed.QinAtNode, c),
                                     QGet(lateralByCode, c))]
           stage      == [c \in CodeSet(currentInputs) |->
                             qToStage_cm(nextQ[c], MapGet(aux.rating, c))]
           dayStr     == isoDate(dates(now, t))
           day0       == isoDate(dates(now, 0))
           day1       == isoDate(dates(now, 0) + 24)
           day2       == isoDate(dates(now, 0) + 48)
           idx        == DailyIdx(dayStr, day0, day1, day2)
       IN /\ prev' = routed.prev
          /\ Qstate' = [c \in DOMAIN Qstate |->
                           IF c \in DOMAIN nextQ THEN nextQ[c] ELSE Qstate[c]]
          /\ rows' = rows \o
                [i \in 1..Len(codes) |->
                    [forecast_date           |-> dayStr,
                     forecast_datetime       |-> dates(now, t),
                     station_code            |-> codes[i],
                     station_name            |-> NowRec(currentInputs, codes[i]).station_name,
                     river_name              |-> NowRec(currentInputs, codes[i]).river_name,
                     forecast_water_level_cm |-> Round1(stage[codes[i]])]]
          /\ series' = PushAll(series, settings, currentInputs, codes,
                               dates(now, t), stage, tz)
          /\ tableAcc' =
                IF isEndOfDay /\ idx >= 0 /\ idx <= 2
                THEN [c \in (DOMAIN tableAcc) \cup CodeSet(currentInputs) |->
                        IF c \in CodeSet(currentInputs)
                        THEN [(IF c \in DOMAIN tableAcc THEN tableAcc[c]
                               ELSE << None, None, None >>)
                              EXCEPT ![idx + 1] = Some(Round1(stage[c]))]
                        ELSE tableAcc[c]]
                ELSE tableAcc
    /\ t' = t + 1
    /\ UNCHANGED << pc, currentInputs, settings, model, hydroAux, now, tz, graph,
                    order, lateralByCode, segParams, result, branch, srv >>

\* sByCode.get(code) || {}: keyed by the station_code as given (not trimmed)
SByCodeGet(st, code) ==
    LET hit == {i \in 1..Len(st) : st[i].station_code = code}
    IN IF hit = {} THEN None
       ELSE Some(st[CHOOSE i \in hit : \A j \in hit : j <= i])

\* one row of the daily table of the hydrologic path
HydroTableRow(st, ci, code, vals, base) ==
    LET s == SByCodeGet(st, code)
        r == NowRec(ci, code)
    IN [river           |-> OrStr(IF IsNull(s) THEN << >> ELSE Val(s).river_name,
                                  r.river_name),
        station         |-> OrStr(IF IsNull(s) THEN << >> ELSE Val(s).station_name,
                                  r.station_name),
        date_today      |-> isoDate(dates(base, 0)),
        wl_today_cm     |-> vals[1],
        wl_tomorrow_cm  |-> vals[2],
        wl_day_after_cm |-> vals[3]]

\* after the loop: the daily table, both sorts, return {rows, table, series}
FinishHydro ==
    /\ pc = "loop"
    /\ t = Steps
    /\ LET accCodes == SelectSeq(NowCodes(currentInputs), LAMBDA c : c \in DOMAIN tableAcc)
           table    == [i \in 1..Len(accCodes) |->
                           HydroTableRow(settings, currentInputs, accCodes[i],
                                         tableAcc[accCodes[i]], now)]
       IN /\ rows' = Sort("rows", rows)
          /\ result' = Some([rows   |-> rows',
                             table  |-> Sort("table", table),
                             series |-> series])
    /\ pc' = "done"
    /\ UNCHANGED << currentInputs, settings, model, hydroAux, now, tz, graph, order,
                    lateralByCode, segParams, prev, Qstate, t, tableAcc, series,
                    branch, srv >>

-----------------------------------------------------------------------------
(* forecastWaterLevels: regression fallback *)

\* num(v) then null -> 0
Num0(x) == Coalesce(x, 0)

\* designRow(r): [1, water level, precipitation, air temperature, wind speed,
\* wind direction, humidity, roughness]; the current rows carry no wind or
\* humidity reading
designRow(r) ==
    << 100, Num0(r.water_level_cm), Num0(r.precipitation_mm), Num0(r.air_temp_c),
       0, 0, 0, Num0(r.roughness_n) >>

\* dot(a, b) over the common length
dot(a, b) ==
    SeqSum([i \in 1..Min(Len(a), Len(b)) |-> a[i] * b[i]]) \div 100

\* clamp(v, lo, hi) with optional bounds
clamp(v, lo, hi) ==
    LET x == IF ~IsNull(lo) /\ v < Val(lo) THEN Val(lo) ELSE v
    IN IF ~IsNull(hi) /\ x > Val(hi) THEN Val(hi) ELSE x

\* new Date(y, m, d + k): local midnight of the k-th day from today
dayStart(base, z, k) == (((base + z) \div 24) + k) * 24 - z

\* model.stations?.[code]?.coef || null
CoefOf(m, code) ==
    IF code \in DOMAIN m.stations THEN Some(m.stations[code].coef) ELSE None

\* a plausible slip: the flat prediction leaves the datum offset out
predsOfMutNoDatum(r, s, coef) ==
    LET datum == IF IsNull(s) THEN 0 ELSE Coalesce(Val(s).datum_offset_cm, 0)
        lo    == IF IsNull(s) THEN None ELSE Val(s).min_level_cm
        hi    == IF IsNull(s) THEN None ELSE Val(s).max_level_cm
    IN IF IsNull(coef)
       THEN LET wl == clamp(Coalesce(r.water_level_cm, 0), lo, hi)
            IN << wl, wl, wl >>
       ELSE LET p1 == dot(Val(coef), designRow(r))
                p2 == (p1 * 98) \div 100 + (Coalesce(r.air_temp_c, 0) * 10) \div 100
                p3 == (p2 * 98) \div 100
            IN << clamp(p1 + datum, lo, hi), clamp(p2 + datum, lo, hi),
                  clamp(p3 + datum, lo, hi) >>

\* a plausible slip: the day+3 value decays the offset, clamped day+2 value
predsOfMutFromClamped(r, s, coef) ==
    LET datum == IF IsNull(s) THEN 0 ELSE Coalesce(Val(s).datum_offset_cm, 0)
        lo    == IF IsNull(s) THEN None ELSE Val(s).min_level_cm
        hi    == IF IsNull(s) THEN None ELSE Val(s).max_level_cm
    IN IF IsNull(coef)
       THEN LET wl == clamp(Coalesce(r.water_level_cm, 0) + datum, lo, hi)
            IN << wl, wl, wl >>
       ELSE LET p1 == dot(Val(coef), designRow(r))
                p2 == (p1 * 98) \div 100 + (Coalesce(r.air_temp_c, 0) * 10) \div 100
                d2 == clamp(p2 + datum, lo, hi)
            IN << clamp(p1 + datum, lo, hi), d2, clamp((d2 * 98) \div 100, lo, hi) >>

\* the three daily predictions of one station
predsOf(r, s, coef) ==
    LET datum == IF IsNull(s) THEN 0 ELSE Coalesce(Val(s).datum_offset_cm, 0)
        lo    == IF IsNull(s) THEN None ELSE Val(s).min_level_cm
        hi    == IF IsNull(s) THEN None ELSE Val(s).max_level_cm
    IN IF IsNull(coef)
       THEN LET wl == clamp(Coalesce(r.water_level_cm, 0) + datum, lo, hi)
            IN << wl, wl, wl >>
       ELSE LET p1 == dot(Val(coef), designRow(r))
                p2 == (p1 * 98) \div 100 + (Coalesce(r.air_temp_c, 0) * 10) \div 100
                p3 == (p2 * 98) \div 100
            IN << clamp(p1 + datum, lo, hi), clamp(p2 + datum, lo, hi),
                  clamp(p3 + datum, lo, hi) >>

FallbackRows(ci, st, m, base, z) ==
    LET codes == NowCodes(ci)
    IN [k \in 1..(3 * Len(codes)) |->
          LET code == codes[((k - 1) \div 3) + 1]
              i    == (k - 1) % 3
              r    == NowRec(ci, code)
              s    == SettingsGet(st, code)
              p    == predsOf(r, s, CoefOf(m, code))
          IN [forecast_date           |-> isoDate(dayStart(base, z, i)),
              forecast_datetime       |-> dayStart(base, z, i) + 23,
              station_code            |-> code,
              station_name            |-> OrStr(r.station_name,
                                            IF IsNull(s) THEN << >> ELSE Val(s).station_name),
              river_name              |-> OrStr(r.river_name,
                                            IF IsNull(s) THEN << >> ELSE Val(s).river_name),
              forecast_water_level_cm |-> Round1(p[i + 1])]]

FallbackTable(ci, st, m, base, z) ==
    LET codes == NowCodes(ci)
    IN [k \in 1..Len(codes) |->
          LET r == NowRec(ci, codes[k])
              s == SettingsGet(st, codes[k])
              p == predsOf(r, s, CoefOf(m, codes[k]))
          IN [river           |-> OrStr(r.river_name,
                                    IF IsNull(s) THEN << >> ELSE Val(s).river_name),
              station         |-> OrStr(r.station_name,
                                    IF IsNull(s) THEN << >> ELSE Val(s).station_name),
              date_today      |-> isoDate(dayStart(base, z, 0)),
              wl_today_cm     |-> Some(Round1(p[1])),
              wl_tomorrow_cm  |-> Some(Round1(p[2])),
              wl_day_after_cm |-> Some(Round1(p[3]))]]

\* series[code]: 72 points, each day's value replicated over 24 hours
FallbackSeries(ci, st, m, base, z) ==
    [code \in CodeSet(ci) |->
        LET r == NowRec(ci, code)
            s == SettingsGet(st, code)
            p == predsOf(r, s, CoefOf(m, code))
        IN [i \in 1..Steps |->
              [t            |-> base + (i - 1),
               hour         |-> getHours(base + (i - 1), z),
               wl_cm        |-> Round1(p[IF i - 1 < 24 THEN 1 ELSE IF i - 1 < 48 THEN 2 ELSE 3]),
               river_name   |-> OrStr(r.river_name,
                                  IF IsNull(s) THEN << >> ELSE Val(s).river_name),
               station_name |-> OrStr(r.station_name,
                                  IF IsNull(s) THEN << >> ELSE Val(s).station_name)]]]

\* a plausible slip: the fallback stamps the model it was given
FallbackMutStampsModel ==
    /\ pc = "start"
    /\ ~UseHydro(hydroAux)
    /\ rows' = Sort("rows", FallbackRows(currentInputs, settings, model, now, tz))
    /\ series' = FallbackSeries(currentInputs, settings, model, now, tz)
    /\ result' = Some([rows   |-> rows',
                       table  |-> Sort("table", FallbackTable(currentInputs, settings,
                                                              model, now, tz)),
                       series |-> series'])
    /\ pc' = "done"
    /\ branch' = "regression"
    /\ model' = [model EXCEPT !.trainedAt = Some(now)]
    /\ UNCHANGED << currentInputs, settings, hydroAux, now, tz, graph, order,
                    lateralByCode, segParams, prev, Qstate, t, tableAcc, srv >>

\* the fallback path, entered when the hydrologic condition is false
Fallback ==
    /\ pc = "start"
    /\ ~UseHydro(hydroAux)
    /\ rows' = Sort("rows", FallbackRows(currentInputs, settings, model, now, tz))
    /\ series' = FallbackSeries(currentInputs, settings, model, now, tz)
    /\ result' = Some([rows   |-> rows',
                       table  |-> Sort("table", FallbackTable(currentInputs, settings,
                                                              model, now, tz)),
                       series |-> series'])
    /\ pc' = "done"
    /\ branch' = "regression"
    /\ UNCHANGED << currentInputs, settings, model, hydroAux, now, tz, graph, order,
                    lateralByCode, segParams, prev, Qstate, t, tableAcc, srv >>

-----------------------------------------------------------------------------
(* inputs of the runs *)

cA == << "A" >>
cB == << "B" >>
cC == << "C" >>
bX == << "X" >>
bY == << "Y" >>

\* a row of currentInputs as buildCurrentInputs makes it
Obs(code, name, river, basin, wl, p) ==
    [station_code |-> code, station_name |-> name, river_name |-> river,
     basin_name |-> basin, water_level_cm |-> wl, precipitation_mm |-> p,
     air_temp_c |-> Some(1000), roughness_n |-> None]

\* a reach row of the "reaches" sheet
Reach(from, to, len, slope) ==
    [from_code |-> from, to_code |-> to, length_km |-> len, slope_m_m |-> slope,
     n_mann |-> None, width_m |-> None, depth_m |-> None]

Curve(h0, a, b) == [h0_cm |-> h0, a |-> a, b |-> b]

\* the end-to-end scenario: A -> B over 10 km, A at 100 cm with 5 mm of rain,
\* B at 80 cm and dry, one basin with runoff 0.2 and no baseflow
ScenarioInputs ==
    << Obs(cA, << "a" >>, << "N" >>, bX, Some(10000), Some(500)),
       Obs(cB, << "b" >>, << "N" >>, bX, Some(8000), Some(0)) >>

NetAB == << Reach(cA, cB, Some(10), Some(1000)) >>
\* a 40 km reach (K above one hour), then a reach with every field defaulted
NetLong == << Reach(cA, cB, Some(40), Some(1000)), Reach(cB, cC, None, None) >>

RatingLinear ==
    (cA :> Curve(Some(0), Some(30), Some(<< 1, 1 >>)))
    @@ (cB :> Curve(Some(0), Some(30), Some(<< 1, 1 >>)))
\* B on a square-law curve with a datum, A with a defaulted coefficient
RatingMixed ==
    (cA :> Curve(None, None, Some(<< 1, 1 >>)))
    @@ (cB :> Curve(Some(1000), Some(30), Some(<< 2, 1 >>)))
RatingOnlyA == (cA :> Curve(Some(0), Some(30), Some(<< 1, 1 >>)))

BasinsX == (bX :> [runoff_coeff |-> Some(20), baseflow_cms |-> Some(0)])
BasinsXY ==
    (bX :> [runoff_coeff |-> Some(30), baseflow_cms |-> Some(50)])
    @@ (bY :> [runoff_coeff |-> None, baseflow_cms |-> None])

ScenarioAux == Some([network |-> NetAB, rating |-> RatingLinear, basins |-> BasinsX])

\* a receding flood: B starts at 900 cm above a 300 km reach, so the routed
\* outflow is still falling on the third day
FloodInputs ==
    << Obs(cA, << "a" >>, << "N" >>, bX, Some(10000), Some(500)),
       Obs(cB, << "b" >>, << "N" >>, bX, Some(90000), Some(0)) >>
NetFar == << Reach(cA, cB, Some(300), Some(1000)) >>
FloodAux == Some([network |-> NetFar, rating |-> RatingLinear, basins |-> BasinsX])

\* the reach A -> B listed twice, as a 10 km and as a 40 km record
NetTwin ==
    << Reach(cA, cB, Some(10), Some(1000)), Reach(cA, cB, Some(40), Some(1000)) >>
TwinAux == Some([network |-> NetTwin, rating |-> RatingLinear, basins |-> BasinsX])

\* the scenario with a negative coefficient a = -0.03 in the curve of A
RatingNegA ==
    (cA :> Curve(Some(0), Some(-30), Some(<< 1, 1 >>)))
    @@ (cB :> Curve(Some(0), Some(30), Some(<< 1, 1 >>)))
NegAux == Some([network |-> NetAB, rating |-> RatingNegA, basins |-> BasinsX])

\* the scenario with station A reported under the code "a"
LowerInputs ==
    << Obs(<< "a" >>, << "a" >>, << "N" >>, bX, Some(10000), Some(500)),
       Obs(cB, << "b" >>, << "N" >>, bX, Some(8000), Some(0)) >>

\* the scenario with B listed before A, and A on a river of its own
SwappedInputs ==
    << Obs(cB, << "b" >>, << "N" >>, bX, Some(8000), Some(0)),
       Obs(cA, << "a" >>, << "D" >>, bX, Some(10000), Some(500)) >>

\* a chain A -> B -> C next to a direct reach A -> C: two reaches end in C
NetFork ==
    << Reach(cA, cB, Some(10), Some(1000)), Reach(cB, cC, None, None),
       Reach(cA, cC, Some(40), Some(1000)) >>
ForkAux == Some([network |-> NetFork, rating |-> RatingLinear, basins |-> BasinsX])

\* further runs, each started at the hour of the data runs
VariantRuns ==
    { << ScenarioInputs, TwinAux >>, << ScenarioInputs, NegAux >>,
      << LowerInputs, ScenarioAux >>, << SwappedInputs, ScenarioAux >>,
      << SwappedInputs, None >>, << ScenarioInputs, ForkAux >> }

\* station metadata: A with a level range, B with a datum offset only
SettingsRows ==
    << [station_code |-> cA, station_name |-> << "a" >>, river_name |-> << "N" >>,
        datum_offset_cm |-> Some(0), min_level_cm |-> Some(0),
        max_level_cm |-> Some(100000)],
       [station_code |-> cB, station_name |-> << "b" >>, river_name |-> << "N" >>,
        datum_offset_cm |-> Some(500), min_level_cm |-> None, max_level_cm |-> None] >>

\* a model trained for A only
ModelA ==
    [trainedAt |-> Some(0),
     stations  |-> (cA :> [coef |-> << 100, 90, 10, 0, 0, 0, 0, 0 >>])]

\* offsets of local time from UTC the process may run under
TzSet == {-5, 0, 2}

\* the hours of one UTC day
BaseHours == 24..47

\* observation lists: A and B with any of three precipitation readings, on the
\* same or different basin tags (one tag with a leading space), and
\* optionally a station C that has no rating curve and is on no AB reach
ObsLists ==
    {<< >>} \cup
    UNION {
      { << Obs(cA, << "a" >>, << "N" >>, ba, Some(10000), pa),
           Obs(cB, << "b" >>, << "N" >>, bb, Some(8000), pb) >> \o extra
        : extra \in { << >>,
                      << Obs(<< " ", "C" >>, << "c" >>, << "D" >>, bX, Some(5000), None) >> } }
      : << pa, pb, ba, bb >> \in
           {None, Some(100), Some(500)} \X {None, Some(0), Some(500)}
           \X {bX, << >>} \X {bX, bY, << " ", "X" >>} }

AuxSet ==
    {None} \cup
    { Some([network |-> n, rating |-> r, basins |-> b])
      : << n, r, b >> \in {<< >>, NetAB, NetLong}
                          \X {EmptyMap, RatingMixed, RatingOnlyA}
                          \X {EmptyMap, BasinsXY} }

\* the hour the data runs start at
DataHour == 34

\* station metadata with a datum offset on A, and with a narrow level range
\* on A next to the range 0..1000 cm on B
SettingsDatum ==
    << [station_code |-> cA, station_name |-> << "a" >>, river_name |-> << "N" >>,
        datum_offset_cm |-> Some(5000), min_level_cm |-> Some(0),
        max_level_cm |-> Some(100000)] >>
SettingsTight ==
    << [station_code |-> cA, station_name |-> << "a" >>, river_name |-> << "N" >>,
        datum_offset_cm |-> Some(0), min_level_cm |-> Some(2000),
        max_level_cm |-> Some(9000)],
       [station_code |-> cB, station_name |-> << "b" >>, river_name |-> << "N" >>,
        datum_offset_cm |-> Some(0), min_level_cm |-> Some(0),
        max_level_cm |-> Some(100000)] >>
SettingsSet == {<< >>, SettingsRows, SettingsDatum, SettingsTight}

\* the model as created, before any training
ModelEmpty == [trainedAt |-> None, stations |-> EmptyMap]

\* observations for the regression runs: A and B at several stages, B
\* possibly without a water level
FallbackObs ==
    { << Obs(cA, << "a" >>, << "N" >>, bX, wa, pa),
         Obs(cB, << "b" >>, << "N" >>, bX, wb, None) >>
      : << wa, pa, wb >> \in {Some(1000), Some(10000), Some(120000)}
                              \X {None, Some(500)}
                              \X {None, Some(5000), Some(150000)} }

\* STATE as the server creates it, with nothing uploaded and nothing sent
InitState ==
    /\ manifest = [historical |-> << >>, water |-> None, precip |-> None]
    /\ fileRows = EmptyMap
    /\ lastForecast = None
    /\ workbooks = {}
    /\ jobs = << >>
    /\ draining = FALSE
    /\ response = None

InitCommon ==
    /\ pc = "start"
    /\ InitState
    /\ modelFile = None
    /\ graph = << >>
    /\ order = << >>
    /\ lateralByCode = EmptyMap
    /\ segParams = EmptyMap
    /\ prev = EmptyMap
    /\ Qstate = EmptyMap
    /\ t = 0
    /\ rows = << >>
    /\ tableAcc = EmptyMap
    /\ series = EmptyMap
    /\ result = None
    /\ branch = "none"

InitRunVars ==
    /\ InitCommon
    /\ settings = SettingsRows
    /\ model = ModelA

\* a run of the scenario at any hour under any offset, a run at one hour
\* over the data, or a run without hydrologic files over the station metadata
\* and the models
Init ==
    \/ /\ InitRunVars
       /\ \/ /\ now \in BaseHours
             /\ tz \in TzSet
             /\ \/ currentInputs = ScenarioInputs /\ hydroAux = ScenarioAux
                \/ currentInputs = FloodInputs /\ hydroAux = FloodAux
          \/ /\ now = DataHour
             /\ tz = 0
             /\ currentInputs \in ObsLists
             /\ hydroAux \in AuxSet
          \/ /\ now = DataHour
             /\ tz = 0
             /\ \E v \in VariantRuns : currentInputs = v[1] /\ hydroAux = v[2]
    \/ /\ InitCommon
       /\ settings \in SettingsSet
       /\ model \in {ModelEmpty, ModelA}
       /\ now = DataHour
       /\ tz \in TzSet
       /\ currentInputs \in FallbackObs
       /\ hydroAux = None

Next == StartHydro \/ SimStep \/ FinishHydro \/ Fallback

Spec == Init /\ [][Next]_vars

-----------------------------------------------------------------------------
(* the traversal order as a function of the reach list *)

MaxReaches == 4

cD == << "D" >>

\* reach rows as the sheet may give them: chains, a confluence, back edges, a
\* self-loop, padded codes (repeating a pair once trimmed) and empty cells
ReachRows ==
    { Reach(e[1], e[2], None, None) :
        e \in { << cA, cB >>, << cB, cC >>, << cA, cC >>, << cC, cD >>,
                << cD, cB >>, << cB, cA >>, << cC, cC >>, << cD, cA >>,
                << << " ", "A" >>, cB >>, << cB, << "C", " " >> >>,
                << << >>, cA >>, << cB, << >> >> } }

ReachLists == UNION { [1..n -> ReachRows] : n \in 0..MaxReaches }

InitTopo ==
    /\ InitRunVars
    /\ now = DataHour
    /\ tz = 0
    /\ currentInputs = << >>
    /\ \E n \in ReachLists :
          hydroAux = Some([network |-> n, rating |-> EmptyMap, basins |-> EmptyMap])

\* const graph = buildGraph(hydroAux.network); const order = topoOrDepthFirst(graph)
TopoRun ==
    /\ pc = "start"
    /\ graph' = buildGraph(Val(hydroAux).network)
    /\ order' = topoOrDepthFirst(graph')
    /\ pc' = "ordered"
    /\ UNCHANGED << currentInputs, settings, model, hydroAux, now, tz, lateralByCode,
                    segParams, prev, Qstate, t, rows, tableAcc, series, result,
                    branch, srv >>

NextTopo == TopoRun

SpecTopo == InitTopo /\ [][NextTopo]_vars

-----------------------------------------------------------------------------
(* training: ridge regression per station (trainFromRows).  Historical rows
   are [station_code, date (days, optional), water_level_cm (optional)];
   the sheets of the runs carry no precipitation and no air temperature. *)

\* the keys of byStation in insertion order: trimmed, non-empty codes
byStationKeys(hist) ==
    Dedup(SelectSeq([i \in 1..Len(hist) |-> Trim(hist[i].station_code)],
                    LAMBDA c : c # << >>))

\* Op applied to the value of v, which is computed once
With(Op(_), v) == CHOOSE r \in {Op(w) : w \in {v}} : TRUE

\* byStation.get(code): the rows of the code as trainFromRows stores them
byStationRows(hist, code) ==
    With(LAMBDA mine :
            [i \in 1..Len(mine) |->
                [date |-> mine[i].date, station_code |-> code,
                 water_level_cm |-> mine[i].water_level_cm,
                 precipitation_mm |-> mine[i].precipitation_mm,
                 air_temp_c |-> mine[i].air_temp_c, roughness_n |-> None]],
         SelectSeq(hist, LAMBDA r : Trim(r.station_code) = code))

\* the (today, tomorrow) pairs of the rows sorted by date whose tomorrow has
\* a water level: x = designRow(today), y = tomorrow's level
pairsOf(stationRows) ==
    With(LAMBDA sorted :
            With(LAMBDA idx :
                    [k \in 1..Len(idx) |->
                        [x |-> designRow(sorted[idx[k]]),
                         y |-> Val(sorted[idx[k] + 1].water_level_cm)]],
                 SelectSeq([i \in 1..(IF Len(sorted) = 0 THEN 0 ELSE Len(sorted) - 1)
                              |-> i],
                           LAMBDA i : ~IsNull(sorted[i + 1].water_level_cm))),
         Sort("date", stationRows))

\* if (X.length < 5) continue
MinPairs == 5

\* beta = (X'X + lambda I)^-1 X'y with lambda = 0.001.  A column of X that is
\* zero in every row decouples (X'X + lambda I is block diagonal there) and
\* its coefficient is exactly 0; with the intercept and the water level the
\* only other columns, beta solves the 2 x 2 system
\*     (n + l) b0 + Sw b1        = Sy
\*     Sw b0      + (Sww + l) b1 = Swy
\* by Cramer's rule.  W and Y are in hundredths, the sums are scaled so that
\* every term is an integer: det7 is 10^7 times the determinant.
ridge(P) ==
    LET n    == Len(P)
        SW   == SeqSum([i \in 1..n |-> P[i].x[2]])
        SY   == SeqSum([i \in 1..n |-> P[i].y])
        SWW  == SeqSum([i \in 1..n |-> P[i].x[2] * P[i].x[2]])
        SWY  == SeqSum([i \in 1..n |-> P[i].x[2] * P[i].y])
        det7 == (1000 * n + 1) * (SWW + 10) - 1000 * SW * SW
        N0   == (SWW + 10) * SY - SW * SWY
        N1   == (1000 * n + 1) * SWY - 1000 * SW * SY
    IN << (N0 * 10) \div (det7 \div 100), N1 \div (det7 \div 100),
          0, 0, 0, 0, 0, 0 >>

\* a level so large that lambda = 0.001 and lambda + 1e-6 vanish in the
\* rounding of n * w^2 (4 000 000 cm: n * w^2 >= 8e13, half an ulp is 0.0078)
Huge == 400000000

\* every row has the same huge value as level and as precipitation: the two
\* columns of X are equal, so the two rows of X'X + lambda I are equal in
\* double precision and elimination meets a zero pivot
Singular(P) ==
    /\ P # << >>
    /\ \A i \in 1..Len(P) : P[i].x[2] >= Huge /\ P[i].x[3] = P[i].x[2]

\* what math.inv does on the regularised matrix of a station: it returns
\* the inverse ("ok"), throws and the retry with lambda + 1e-6 returns
\* ("retry"), or throws both times ("throws")
InvOutcomes == {"ok", "retry", "throws"}

\* the stations trainFromRows tries to fit
fitCodes(hist) ==
    {c \in {byStationKeys(hist)[i] : i \in 1..Len(byStationKeys(hist))} :
        Len(pairsOf(byStationRows(hist, c))) >= MinPairs}

\* the outcomes of the inversions of one training call: a singular matrix
\* throws both times, any other is inverted at the first or the second try
InvChoices(hist) ==
    {inv \in [fitCodes(hist) -> InvOutcomes] :
        \A c \in fitCodes(hist) :
            (inv[c] = "throws") <=> Singular(pairsOf(byStationRows(hist, c)))}

\* a plausible slip: a station with too few pairs loses its coefficients
trainLoopMutDropShort(codes, hist, m, inv) ==
    LET short == {c \in DOMAIN m.stations :
                     /\ \E i \in 1..Len(codes) : codes[i] = c
                     /\ c \notin fitCodes(hist)}
        fit   == {c \in fitCodes(hist) : \E i \in 1..Len(codes) : codes[i] = c}
        keep  == (DOMAIN m.stations \ short) \cup fit
    IN [model |-> [m EXCEPT !.stations =
                      [c \in keep |->
                          IF c \in fit
                          THEN [coef |-> ridge(pairsOf(byStationRows(hist, c)))]
                          ELSE m.stations[c]]],
        threw |-> FALSE]

\* the loop over byStation.entries(): a station with fewer than MinPairs
\* pairs is passed over, a fit overwrites model.stations[code] in place, and
\* an inversion that throws twice leaves the loop with the exception
RECURSIVE trainLoop(_, _, _, _)
trainLoop(codes, hist, m, inv) ==
    IF codes = << >> THEN [model |-> m, threw |-> FALSE]
    ELSE With(LAMBDA P :
                 IF Len(P) < MinPairs THEN trainLoop(Tail(codes), hist, m, inv)
                 ELSE IF inv[Head(codes)] = "throws" THEN [model |-> m, threw |-> TRUE]
                 ELSE With(LAMBDA fitted : trainLoop(Tail(codes), hist, fitted, inv),
                           [m EXCEPT !.stations =
                               MapSet(@, Head(codes), [coef |-> ridge(P)])]),
              pairsOf(byStationRows(hist, Head(codes))))

\* trainFromRows(hist, model): the model object as the call leaves it, and
\* whether the call threw; trainedAt is set after the loop only
trainFromRows(hist, m, inv, clock) ==
    With(LAMBDA r :
            IF r.threw THEN r
            ELSE [model |-> [r.model EXCEPT !.trainedAt = Some(clock)],
                  threw |-> FALSE],
         With(LAMBDA codes : trainLoop(codes, hist, m, inv), byStationKeys(hist)))

\* trainModelFromHistoricalFiles: the rows of every listed path, in order
RECURSIVE allRows(_, _)
allRows(paths, disk) ==
    IF paths = << >> THEN << >>
    ELSE (IF Head(paths) \in DOMAIN disk THEN disk[Head(paths)] ELSE << >>)
         \o allRows(Tail(paths), disk)

-----------------------------------------------------------------------------
(* the server: uploads, POST /api/train, POST /api/forecast *)

\* r.f for a property the row may not have (undefined reads as absent)
FieldOr(r, f, dflt) == IF f \in DOMAIN r THEN r[f] ELSE dflt

\* readSheet(path, sheet) for a path the manifest may not hold
readOpt(pathOpt, disk) ==
    IF IsNull(pathOpt) \/ Val(pathOpt) \notin DOMAIN disk THEN << >>
    ELSE disk[Val(pathOpt)]

\* latestByKey(rows, ["station_code"]): the keys in insertion order (the
\* code as given, not trimmed) ...
latestKeys(rws) == Dedup([i \in 1..Len(rws) |-> rws[i].station_code])

\* ... and the row kept for a key: "if (!prev || t >= prev._t)" keeps the
\* last row among those of the greatest time, a missing time being 0
latestRow(rws, key) ==
    LET mine == {i \in 1..Len(rws) : rws[i].station_code = key}
        tm(i) == Coalesce(rws[i].datetime_utc, 0)
    IN IF mine = {} THEN None
       ELSE Some(rws[CHOOSE i \in mine :
                        \A j \in mine : tm(j) < tm(i) \/ (tm(j) = tm(i) /\ j <= i)])

\* buildCurrentInputs: one merged row per code of the water, precipitation
\* and air sheets (no air sheet is uploaded in these runs)
buildCurrentInputs(mf, disk, md) ==
    LET water  == readOpt(mf.water, disk)
        precip == readOpt(mf.precip, disk)
        codes  == Dedup(latestKeys(water) \o latestKeys(precip))
    IN [k \in 1..Len(codes) |->
          LET w == latestRow(water, codes[k])
              q == latestRow(precip, codes[k])
              m == SettingsGet(md, codes[k])
              mName  == IF IsNull(m) THEN << >> ELSE FieldOr(Val(m), "station_name", << >>)
              mRiver == IF IsNull(m) THEN << >> ELSE FieldOr(Val(m), "river_name", << >>)
              mBasin == IF IsNull(m) THEN << >> ELSE FieldOr(Val(m), "basin_name", << >>)
          IN [station_code     |-> codes[k],
              station_name     |-> OrStr(mName, IF IsNull(w) THEN << >>
                                                ELSE FieldOr(Val(w), "station_name", << >>)),
              river_name       |-> OrStr(mRiver, IF IsNull(w) THEN << >>
                                                 ELSE FieldOr(Val(w), "river_name", << >>)),
              basin_name       |-> OrStr(mBasin, IF IsNull(q) THEN << >>
                                                 ELSE FieldOr(Val(q), "basin_name", << >>)),
              water_level_cm   |-> IF IsNull(w) THEN None ELSE Val(w).water_level_cm,
              precipitation_mm |-> IF IsNull(q) THEN None ELSE Val(q).precipitation_mm,
              air_temp_c       |-> None,
              roughness_n      |-> IF IsNull(m) THEN None
                                   ELSE FieldOr(Val(m), "roughness_n", None)]]

\* buildHydroAux with no network, rating or basin workbook uploaded
buildHydroAux == [network |-> << >>, rating |-> EmptyMap, basins |-> EmptyMap]

\* requests are taken while the clock is below this hour
MaxRequests == 2
MaxClock == DataHour + MaxRequests
\* entries of manifest.historical
MaxHist == 2
\* /api/train handlers that may be started within one turn of the event loop
MaxOverlap == 2

\* no handler is running or suspended
Idle == pc = "idle" /\ jobs = << >>

\* a plausible slip of scheduling: an upload is served while a training
\* handler is suspended at an await
UploadAllowedMutAnyTime == pc = "idle"

\* fs.readFileSync, XLSX.readFile and fs.writeFileSync do their work before
\* loadModel, trainModelFromHistoricalFiles and saveModel return, so every
\* await of the train handler waits on a settled promise: its continuation is
\* a promise job, and the event loop takes no upload before the jobs are done
UploadAllowed == Idle

\* POST /api/upload/historical with one file
UploadHistorical(name, content) ==
    /\ UploadAllowed
    /\ Len(manifest.historical) < MaxHist
    /\ fileRows' = MapSet(fileRows, name, content)
    /\ manifest' = [manifest EXCEPT !.historical = Append(@, name)]
    /\ response' = Some([route |-> "upload", status |-> 200])
    /\ UNCHANGED << pc, currentInputs, settings, model, hydroAux, now, tz, graph,
                    order, lateralByCode, segParams, prev, Qstate, t, rows, tableAcc,
                    series, result, branch, modelFile, lastForecast, workbooks, jobs,
                    draining >>

\* POST /api/upload/current/water and /precip
UploadCurrent(kind, content) ==
    /\ UploadAllowed
    /\ MapGet(fileRows, kind) # Some(content)
    /\ fileRows' = MapSet(fileRows, kind, content)
    /\ manifest' = [manifest EXCEPT ![kind] = Some(kind)]
    /\ response' = Some([route |-> "upload", status |-> 200])
    /\ UNCHANGED << pc, currentInputs, settings, model, hydroAux, now, tz, graph,
                    order, lateralByCode, segParams, prev, Qstate, t, rows, tableAcc,
                    series, result, branch, modelFile, lastForecast, workbooks, jobs,
                    draining >>

\* a plausible slip: the request is never turned away
NoHistoricalMutNever == FALSE

\* if (!files.length) return res.status(400)
NoHistorical == manifest.historical = << >>

\* POST /api/train up to its first await.  Without historical files it
\* answers 400 at once.  With a model file it calls loadModel and suspends;
\* without one it calls the training on STATE.model and suspends.  A handler
\* starts in a new turn, or in the turn of another one before any
\* continuation has run (requests that arrive together).
TrainStart ==
    /\ pc = "idle"
    /\ ~draining
    /\ Len(jobs) < MaxOverlap
    /\ now < MaxClock
    /\ now' = now + 1
    /\ IF NoHistorical
       THEN /\ response' = Some([route |-> "train", status |-> 400])
            /\ UNCHANGED << model, jobs >>
       ELSE IF ~IsNull(modelFile)
       THEN /\ jobs' = Append(jobs, [seg |-> "loaded", threw |-> FALSE, obj |-> modelFile])
            /\ UNCHANGED << model, response >>
       ELSE /\ \E hist \in {allRows(manifest.historical, fileRows)} :
               \E inv \in InvChoices(hist) :
               \E r \in {trainFromRows(hist, model, inv, now)} :
                  /\ model' = r.model
                  /\ jobs' = Append(jobs, [seg |-> "trained", threw |-> r.threw,
                                           obj |-> None])
            /\ UNCHANGED response
    /\ UNCHANGED << pc, currentInputs, settings, hydroAux, tz, graph, order,
                    lateralByCode, segParams, prev, Qstate, t, rows, tableAcc, series,
                    result, branch, manifest, fileRows, modelFile, lastForecast,
                    workbooks, draining >>

\* the continuation at the head of the job queue runs to its next await
TrainResume ==
    /\ pc = "idle"
    /\ jobs # << >>
    /\ LET j == Head(jobs)
       IN \/ /\ j.seg = "loaded"
             \* STATE.model = <loaded>; then the training call on it
             /\ \E hist \in {allRows(manifest.historical, fileRows)} :
                \E inv \in InvChoices(hist) :
                \E r \in {trainFromRows(hist, Val(j.obj), inv, now)} :
                   /\ model' = r.model
                   /\ jobs' = Append(Tail(jobs),
                                     [seg |-> "trained", threw |-> r.threw,
                                      obj |-> Some(r.model)])
             /\ draining' = TRUE
             /\ UNCHANGED << modelFile, response >>
          \/ /\ j.seg = "trained"
             /\ j.threw
             \* catch (e): res.status(500)
             /\ response' = Some([route |-> "train", status |-> 500])
             /\ jobs' = Tail(jobs)
             /\ draining' = (Tail(jobs) # << >>)
             /\ UNCHANGED << model, modelFile >>
          \/ /\ j.seg = "trained"
             /\ ~j.threw
             \* STATE.model = <trained>; saveModel writes it
             /\ model' = IF IsNull(j.obj) THEN model ELSE Val(j.obj)
             /\ modelFile' = Some(model')
             /\ jobs' = Append(Tail(jobs), [seg |-> "saved", threw |-> FALSE, obj |-> j.obj])
             /\ draining' = TRUE
             /\ UNCHANGED response
          \/ /\ j.seg = "saved"
             \* res.json({ok, trainedAt, stations})
             /\ response' = Some([route |-> "train", status |-> 200,
                                  trainedAt |-> model.trainedAt,
                                  stations  |-> Cardinality(DOMAIN model.stations)])
             /\ jobs' = Tail(jobs)
             /\ draining' = (Tail(jobs) # << >>)
             /\ UNCHANGED << model, modelFile >>
    /\ UNCHANGED << pc, currentInputs, settings, hydroAux, now, tz, graph, order,
                    lateralByCode, segParams, prev, Qstate, t, rows, tableAcc, series,
                    result, branch, manifest, fileRows, lastForecast, workbooks >>

\* POST /api/forecast up to the call of forecastWaterLevels:
\* assembleRunContext rebuilds STATE.currentInputs and STATE.hydroAux
ForecastBegin ==
    /\ Idle
    /\ now < MaxClock
    /\ now' = now + 1
    /\ currentInputs' = buildCurrentInputs(manifest, fileRows, settings)
    /\ hydroAux' = Some(buildHydroAux)
    /\ pc' = "start"
    /\ rows' = << >>
    /\ series' = EmptyMap
    /\ result' = None
    /\ branch' = "none"
    /\ UNCHANGED << settings, model, tz, graph, order, lateralByCode, segParams, prev,
                    Qstate, t, tableAcc, srv >>

\* timestampedOutPath(OUT_DIR, "forecast", "xlsx"): a path made of the time
timestampedOutPath(clock) == << "forecast", clock >>

\* writeForecastWorkbook(outPath, table, rows): a workbook of the daily table
\* and the hourly rows at that path
writeForecastWorkbook(books, outPath, table, hourly) ==
    {b \in books : b.path # outPath}
        \cup {[path |-> outPath, daily |-> table, hourly |-> hourly]}

\* POST /api/forecast after the run: the workbook, the last-forecast state
\* and the response
ForecastEnd ==
    /\ pc = "done"
    /\ jobs = << >>
    /\ LET res     == Val(result)
           outPath == timestampedOutPath(now)
       IN /\ workbooks' = writeForecastWorkbook(workbooks, outPath, res.table, res.rows)
          /\ lastForecast' = Some([path |-> outPath,
                                   json |-> [daily |-> res.table, hourly |-> res.rows,
                                             series |-> res.series]])
          /\ response' = Some([route |-> "forecast", status |-> 200,
                               table |-> res.table, hourly |-> res.rows,
                               excel_path |-> outPath])
    /\ pc' = "idle"
    /\ UNCHANGED << currentInputs, settings, model, hydroAux, now, tz, graph, order,
                    lateralByCode, segParams, prev, Qstate, t, rows, tableAcc, series,
                    result, branch, manifest, fileRows, modelFile, jobs, draining >>

\* a row of the "historical" sheet
HistRow(code, day, wl, p) ==
    [station_code |-> code, date |-> Some(day), water_level_cm |-> wl,
     precipitation_mm |-> p, air_temp_c |-> None]

\* six days of station B: five pairs
HistB6 ==
    [i \in 1..6 |-> HistRow(cB, i, Some(10 * i), None)]

\* two days of station B: one pair, and three when the workbook is listed
\* twice
HistB2 ==
    [i \in 1..2 |-> HistRow(cB, i, Some(20 * i), None)]

\* six days of station A with the same absurd reading in both columns
HistASing6 ==
    [i \in 1..6 |-> HistRow(cA, i, Some(Huge), Some(Huge))]

\* one workbook with both stations, B first
HistBoth == HistB6 \o HistASing6

HistContents == {HistB6, HistB2, HistASing6, HistBoth}

\* f.originalname of the uploaded historical workbooks
HistNames == {"h1", "h2"}

\* a row of the "water" and of the "precip" sheet
WaterRow(code, hour, wl) ==
    [station_code |-> code, datetime_utc |-> Some(hour), water_level_cm |-> Some(wl)]

PrecipRow(code, hour, p) ==
    [station_code |-> code, datetime_utc |-> Some(hour), precipitation_mm |-> Some(p)]

\* the water workbooks: one without rows, one with both stations
WaterContents ==
    {<< >>, << WaterRow(cA, DataHour, 10000), WaterRow(cB, DataHour, 5000) >>}

PrecipContents == {<< PrecipRow(cA, DataHour, 500) >>}

\* the server after start: STATE as the module creates it, and the model
\* file a previous run of the server may have left
InitServer ==
    /\ InitState
    /\ pc = "idle"
    /\ currentInputs = << >>
    /\ settings = SettingsRows
    /\ model = ModelEmpty
    /\ modelFile \in {None, Some(ModelA)}
    /\ hydroAux = Some(buildHydroAux)
    /\ now = DataHour
    /\ tz = 0
    /\ graph = << >>
    /\ order = << >>
    /\ lateralByCode = EmptyMap
    /\ segParams = EmptyMap
    /\ prev = EmptyMap
    /\ Qstate = EmptyMap
    /\ t = 0
    /\ rows = << >>
    /\ tableAcc = EmptyMap
    /\ series = EmptyMap
    /\ result = None
    /\ branch = "none"

NextServer ==
    \/ \E name \in HistNames, content \in HistContents : UploadHistorical(name, content)
    \/ \E content \in WaterContents : UploadCurrent("water", content)
    \/ \E content \in PrecipContents : UploadCurrent("precip", content)
    \/ TrainStart
    \/ TrainResume
    \/ ForecastBegin
    \/ Fallback
    \/ ForecastEnd

SpecServer == InitServer /\ [][NextServer]_vars

-----------------------------------------------------------------------------
(* one routing step of one edge (SpecMusk) *)

\* travel times in seconds, the limit 0 among them
MuskK == {0, 3600, 5400, 36000}

\* weights in tenths
MuskX == {0, X10}

\* discharges in centi m3/s
MuskQ == {0, 50, 1000, 2500}

MuskKey == keyEdge(cA, cB)

\* one edge A -> B with its parameters, its stored {in, out} and the
\* discharge of its upstream station
InitMusk ==
    /\ InitState
    /\ modelFile = None
    /\ pc = "start"
    /\ currentInputs = << >>
    /\ settings = << >>
    /\ model = ModelEmpty
    /\ hydroAux = None
    /\ now = DataHour
    /\ tz = 0
    /\ graph = << >>
    /\ order = << >>
    /\ lateralByCode = EmptyMap
    /\ \E K \in MuskK, X \in MuskX : segParams = (MuskKey :> [K |-> K, X |-> X])
    /\ \E qi \in MuskQ, qo \in MuskQ : prev = (MuskKey :> [in |-> qi, out |-> qo])
    /\ \E q \in MuskQ : Qstate = (cA :> q)
    /\ t = 0
    /\ rows = << >>
    /\ tableAcc = EmptyMap
    /\ series = EmptyMap
    /\ result = None
    /\ branch = "none"

\* the body of "for (const e of order)" for that edge
MuskStep ==
    /\ pc = "start"
    /\ LET prm    == segParams[MuskKey]
           Qin_up == QGet(Qstate, cA)
           Qout   == muskingumStep(Qin_up, prev[MuskKey], prm.K, prm.X, Dt)
       IN prev' = MapSet(prev, MuskKey, [in |-> Qin_up, out |-> Qout])
    /\ pc' = "routed"
    /\ UNCHANGED << currentInputs, settings, model, hydroAux, now, tz, graph, order,
                    lateralByCode, segParams, Qstate, t, rows, tableAcc, series,
                    result, branch, srv >>

NextMusk == MuskStep

SpecMusk == InitMusk /\ [][NextMusk]_vars

-----------------------------------------------------------------------------
(* claims about the traversal order (SpecTopo) *)

\* the nodes reachable from the set S by one edge or more
RECURSIVE Descendants(_, _, _)
Descendants(g, S, k) ==
    LET step == {g[i].to_code : i \in {j \in 1..Len(g) : g[j].from_code \in S}}
    IN IF k = 0 THEN {} ELSE step \cup Descendants(g, step, k - 1)

\* no edge closes a cycle
Acyclic(g) ==
    \A i \in 1..Len(g) :
        g[i].from_code \notin Descendants(g, {g[i].from_code}, Len(g))

\* C2: the order returned by topoOrDepthFirst holds every edge of the graph
\* exactly once, whatever the edge list (cycles, self-loops, islands,
\* repeated pairs)
C2_OrderIsPermutation ==
    pc = "ordered" =>
        /\ Len(order) = Len(graph)
        /\ \A e \in 1..Len(graph) :
              Cardinality({k \in 1..Len(order) : order[k] = e}) = 1

\* a graph with no source at all, holding a self-loop and a repeated pair, so
\* that only the leftover loop places its edges
C2_Witness ==
    /\ pc = "ordered"
    /\ Len(graph) >= 3
    /\ Sources(graph) = << >>
    /\ \E i \in 1..Len(graph) : graph[i].from_code = graph[i].to_code
    /\ \E i, j \in 1..Len(graph) :
          i # j /\ graph[i].from_code = graph[j].from_code
                /\ graph[i].to_code = graph[j].to_code

\* C3: in an acyclic graph every edge of the order starts at a source or comes
\* after an edge that ends at its from-node
C3_FromVisitedFirst ==
    (pc = "ordered" /\ Acyclic(graph)) =>
        \A k \in 1..Len(order) :
            \/ ~HasIncoming(graph, graph[order[k]].from_code)
            \/ \E j \in 1..(k - 1) :
                  graph[order[j]].to_code = graph[order[k]].from_code

\* an acyclic list that gives a downstream reach before the reach feeding it
C3_Witness ==
    /\ pc = "ordered"
    /\ Acyclic(graph)
    /\ Len(graph) >= 3
    /\ \E i, j \in 1..Len(graph) :
          i < j /\ graph[j].to_code = graph[i].from_code

\* C4: in an acyclic graph all edges into a node precede all edges out of it
C4_IncomingBeforeOutgoing ==
    (pc = "ordered" /\ Acyclic(graph)) =>
        \A j, k \in 1..Len(order) :
            graph[order[j]].to_code = graph[order[k]].from_code => j < k

-----------------------------------------------------------------------------
(* claims about a forecast run (Spec) *)

\* C1: the hydrologic path runs exactly when the reach list, the rating map
\* and the basin map are all non-empty; otherwise (hydroAux absent included)
\* the fallback runs; one path, and only one, makes the result
C1_BranchChoice ==
    /\ branch # "none" =>
          (branch = "hydro" <=>
              /\ hydroAux # None
              /\ Val(hydroAux).network # << >>
              /\ DOMAIN Val(hydroAux).rating # {}
              /\ DOMAIN Val(hydroAux).basins # {})
    /\ pc = "done" => (result # None /\ branch \in {"hydro", "regression"})
    /\ branch = "regression" => (pc = "done" /\ t = 0 /\ tableAcc = EmptyMap)
    /\ (branch = "hydro" /\ pc = "done") => t = Steps
    /\ pc = "start" => (branch = "none" /\ result = None)

\* a fallback run although reaches and rating curves were given: only the
\* basin map is empty
C1_Witness ==
    /\ pc = "done"
    /\ branch = "regression"
    /\ hydroAux # None
    /\ Val(hydroAux).network # << >>
    /\ DOMAIN Val(hydroAux).rating # {}
    /\ DOMAIN Val(hydroAux).basins = {}

\* the rows of the result that belong to station c
RowsOf(c) ==
    {i \in 1..Len(Val(result).rows) : Val(result).rows[i].station_code = c}

\* C5: a hydrologic run returns, for every station of the current
\* observations, exactly 72 hourly rows: one for each hour from the base hour
\* to base + 71 h, no hour twice
C5_SeventyTwoRowsPerStation ==
    (pc = "done" /\ branch = "hydro") =>
        /\ Len(Val(result).rows) = 72 * Cardinality(CodeSet(currentInputs))
        /\ \A c \in CodeSet(currentInputs) :
              /\ Cardinality(RowsOf(c)) = 72
              /\ \A h \in now..(now + 71) :
                    Cardinality({i \in RowsOf(c) :
                        Val(result).rows[i].forecast_datetime = h}) = 1

\* a finished hydrologic run over three stations
C5_Witness ==
    /\ pc = "done"
    /\ branch = "hydro"
    /\ Cardinality(CodeSet(currentInputs)) = 3

\* the stage reported for station c at hour h
StageAt(c, h) ==
    LET i == CHOOSE j \in RowsOf(c) : Val(result).rows[j].forecast_datetime = h
    IN Val(result).rows[i].forecast_water_level_cm

\* C6: after a hydrologic run the daily snapshot of every station holds, at
\* index k, the stage of local hour 23 of the k-th calendar day from the
\* start day, for any start hour and any offset of local time from UTC
C6_DailyByLocalDay ==
    (pc = "done" /\ branch = "hydro") =>
        \A c \in CodeSet(currentInputs) :
            /\ c \in DOMAIN tableAcc
            /\ \A k \in 0..2 :
                  tableAcc[c][k + 1] = Some(StageAt(c, dayStart(now, tz, k) + 23))

\* C7: an hour-23 step whose date is none of day 0, 1, 2 still emits its
\* hourly rows and writes no index of any daily snapshot
C7_LateHour23LeavesDaily ==
    [][ ( /\ pc = "loop"
          /\ t < Steps
          /\ getHours(now + t, tz) = 23
          /\ isoDate(now + t) \notin
                {isoDate(now), isoDate(now + 24), isoDate(now + 48)} )
        => ( /\ tableAcc' = tableAcc
             /\ Len(rows') = Len(rows) + Cardinality(CodeSet(currentInputs)) ) ]_vars

\* the discharge a station starts the run with
Q0(c) ==
    IF c \in CodeSet(currentInputs)
    THEN stageToQ_cm(NowRec(currentInputs, c).water_level_cm,
                     MapGet(Val(hydroAux).rating, c))
    ELSE 0

\* C8 as stated: after the first step the discharge of a station at the end
\* of a reach is max(0, 0.2 Q(0) + lateral), nothing routed having arrived
C8_NoRoutedInflowAtStep1 ==
    (pc = "loop" /\ t = 1) =>
        \A i \in 1..Len(graph) :
            graph[i].to_code \in DOMAIN Qstate =>
                Qstate[graph[i].to_code] =
                    Max(0, (20 * Q0(graph[i].to_code)) \div 100
                           + lateralByCode[graph[i].to_code])

\* the outflow of reach k at the first step, from the seeds Q_from(0), Q_to(0):
\* C0 + C1 = dt / denom and C2 = (0.8 K - 0.5 dt) / denom for X = 0.2
FirstOutflow(k) ==
    LET K == segParams[k].K
    IN Max(0, (36000 * Q0(k[1]) + (8 * K - 18000) * Q0(k[2])) \div (8 * K + 18000))

\* C8 amended: at the first step a reach (its pair of endpoints not repeated
\* in the network) delivers max(0, (C0 + C1) Q_A(0) + C2 Q_B(0)) to its
\* downstream station, and the station's discharge after the step is
\* max(0, 0.2 Q_B(0) + the routed inflow of its reaches + lateral_B)
C8_FirstStepRoutesSeed ==
    (pc = "loop" /\ t = 1
        /\ \A i, j \in 1..Len(graph) :
              keyEdge(graph[i].from_code, graph[i].to_code)
                = keyEdge(graph[j].from_code, graph[j].to_code) => i = j) =>
        /\ \A k \in DOMAIN prev : prev[k].out = FirstOutflow(k)
        /\ \A c \in DOMAIN Qstate :
              Qstate[c] =
                 Max(0, (20 * Q0(c)) \div 100
                        + SeqSum([i \in 1..Len(graph) |->
                                     IF graph[i].to_code = c
                                     THEN FirstOutflow(keyEdge(graph[i].from_code,
                                                               graph[i].to_code))
                                     ELSE 0])
                        + lateralByCode[c])

\* the first step of a run in which A's discharge reaches B: the routed inflow
\* is positive and B's discharge is above 0.2 Q_B(0) + lateral_B
C8_Witness ==
    /\ pc = "loop"
    /\ t = 1
    /\ << cA, cB >> \in DOMAIN prev
    /\ Q0(cA) > 0
    /\ prev[<< cA, cB >>].out > 0
    /\ segParams[<< cA, cB >>].K > 3600
    /\ Qstate[cB] > (20 * Q0(cB)) \div 100 + lateralByCode[cB]

\* rows whose basin tag is the (trimmed) tag of r and that carry a reading
SameBasinReadings(r) ==
    {Val(currentInputs[i].precipitation_mm) : i \in
        {j \in 1..Len(currentInputs) :
            /\ currentInputs[j].basin_name # << >>
            /\ currentInputs[j].basin_name = Trim(r.basin_name)
            /\ ~IsNull(currentInputs[j].precipitation_mm)}}

SetMax(S) == CHOOSE v \in S : \A w \in S : w <= v

\* lateral inflow of a station from the precipitation P it is given
LateralFrom(r, P) ==
    LET b  == Trim(r.basin_name)
        bs == Val(hydroAux).basins
    IN (IF b \in DOMAIN bs THEN Coalesce(bs[b].baseflow_cms, 0) ELSE 0)
       + (Max(P, 0) * (IF b \in DOMAIN bs THEN Coalesce(bs[b].runoff_coeff, 20) ELSE 20))
         \div 100

C10_UnmodelledStationExcluded ==
    (pc = "done" /\ branch = "hydro") =>
        \A c \in CodeSet(currentInputs) :
            ( \/ c \notin DOMAIN Val(hydroAux).rating
              \/ \A i \in 1..Len(graph) :
                    graph[i].from_code # c /\ graph[i].to_code # c ) =>
                /\ RowsOf(c) = {}
                /\ c \notin DOMAIN Val(result).series
                /\ c \notin DOMAIN tableAcc

-----------------------------------------------------------------------------
(* claims about the regression fallback (Spec) *)

\* the stage the fallback reports for station c on day k (0, 1, 2), in tenths
FallbackValue(c, k) == StageAt(c, dayStart(now, tz, k) + 23)

\* the metadata of station c as the fallback reads it
DatumOf(c) ==
    LET s == SettingsGet(settings, c)
    IN IF IsNull(s) THEN 0 ELSE Coalesce(Val(s).datum_offset_cm, 0)
MinOf(c) ==
    LET s == SettingsGet(settings, c)
    IN IF IsNull(s) THEN None ELSE Val(s).min_level_cm
MaxOf(c) ==
    LET s == SettingsGet(settings, c)
    IN IF IsNull(s) THEN None ELSE Val(s).max_level_cm

\* C19: in the fallback a station without coefficients reports, on each of
\* the three days, the observed stage plus the datum offset clamped to the
\* level range (to one decimal)
C19_FlatWithoutCoefficients ==
    (pc = "done" /\ branch = "regression") =>
        \A c \in CodeSet(currentInputs) :
            c \notin DOMAIN model.stations =>
                \A k \in 0..2 :
                    FallbackValue(c, k) =
                        Round1(clamp(Coalesce(NowRec(currentInputs, c).water_level_cm, 0)
                                        + DatumOf(c),
                                     MinOf(c), MaxOf(c)))

\* the example of the claim: range 0..1000 cm, no datum offset, stage 50 cm,
\* no coefficients, three times 50.0
C19_Witness ==
    /\ pc = "done"
    /\ branch = "regression"
    /\ cB \notin DOMAIN model.stations
    /\ settings = SettingsTight
    /\ cB \in CodeSet(currentInputs)
    /\ NowRec(currentInputs, cB).water_level_cm = Some(5000)
    /\ \A k \in 0..2 : FallbackValue(cB, k) = 500

\* |a - b|
AbsDiff(a, b) == IF a >= b THEN a - b ELSE b - a

\* C20 as stated: with coefficients, the reported day+3 value is the reported
\* day+2 value times 0.98, clamped to the level range (within one rounding
\* step of 0.1 cm)
C20_Day3FromReportedDay2 ==
    (pc = "done" /\ branch = "regression") =>
        \A c \in CodeSet(currentInputs) :
            c \in DOMAIN model.stations =>
                AbsDiff(FallbackValue(c, 2),
                        Round1(clamp((FallbackValue(c, 1) * 10 * 98) \div 100,
                                     MinOf(c), MaxOf(c)))) <= 1

\* the day+2 prediction before the datum offset and the clamp
RawDay2(c) ==
    LET r == NowRec(currentInputs, c)
    IN (dot(model.stations[c].coef, designRow(r)) * 98) \div 100
       + (Coalesce(r.air_temp_c, 0) * 10) \div 100

\* C20 amended: the reported day+3 value is 0.98 times the day+2 prediction
\* taken before offset and clamp, then offset by the datum and clamped
C20_Day3FromRawDay2 ==
    (pc = "done" /\ branch = "regression") =>
        \A c \in CodeSet(currentInputs) :
            c \in DOMAIN model.stations =>
                FallbackValue(c, 2) =
                    Round1(clamp((RawDay2(c) * 98) \div 100 + DatumOf(c),
                                 MinOf(c), MaxOf(c)))

\* a station with coefficients and a datum offset, and one whose day+2 value
\* was clamped: the two cases the statement as given gets wrong
C20_Witness ==
    /\ pc = "done"
    /\ branch = "regression"
    /\ cA \in CodeSet(currentInputs)
    /\ cA \in DOMAIN model.stations
    /\ \/ DatumOf(cA) # 0
       \/ /\ MaxOf(cA) # None
          /\ RawDay2(cA) + DatumOf(cA) > Val(MaxOf(cA))

-----------------------------------------------------------------------------
(* claims about the server (SpecServer) *)

\* a step that serves a POST /api/train up to its first await
TrainRequest == pc = "idle" /\ pc' = "idle" /\ now' = now + 1

\* C14: a training request made while no historical file is listed is
\* answered 400, and the in-memory model (its trainedAt included), the model
\* file and the pending continuations are what they were
C14_TrainWithoutHistoryRejected ==
    [][(TrainRequest /\ manifest.historical = << >>) =>
          /\ response' = Some([route |-> "train", status |-> 400])
          /\ model' = model
          /\ modelFile' = modelFile
          /\ jobs' = jobs]_vars

C14_Witness ==
    /\ manifest.historical = << >>
    /\ response = Some([route |-> "train", status |-> 400])
    /\ ~IsNull(modelFile)
    /\ model = ModelEmpty

\* a step in which trainModelFromHistoricalFiles runs: it leaves a
\* continuation that holds the outcome of the call
TrainingCall ==
    /\ jobs' # jobs
    /\ Len(jobs') >= Len(jobs)
    /\ jobs'[Len(jobs')].seg = "trained"

\* the model object handed to that call: STATE.model, or the object that
\* loadModel returned
TrainingBase == IF Len(jobs') > Len(jobs) THEN model ELSE Val(Head(jobs).obj)

\* the rows that call reads
TrainingRows == allRows(manifest.historical, fileRows)

\* the stations of the rows that have fewer than MinPairs pairs
ShortCodes(hist) ==
    {c \in {byStationKeys(hist)[i] : i \in 1..Len(byStationKeys(hist))} :
        c \notin fitCodes(hist)}

\* C11: a training call leaves the entry of every station with fewer than
\* five valid pairs as it was (equal, or still absent) and sets trainedAt to
\* the time of the run
C11_ShortStationKeptAndStamped ==
    [][TrainingCall =>
          \A c \in ShortCodes(TrainingRows) :
              /\ MapGet(model'.stations, c) = MapGet(TrainingBase.stations, c)
              /\ model'.trainedAt = Some(now)]_vars

\* the stations of the rows whose matrix cannot be inverted
SingularCodes(hist) ==
    {c \in fitCodes(hist) : Singular(pairsOf(byStationRows(hist, c)))}

\* C12: when the inversion of a station fails at both tries, the training
\* call keeps that station's entry, fits every other station that has five
\* pairs, sets trainedAt and returns instead of throwing
C12_SingularStationSkipped ==
    [][TrainingCall =>
          \A c \in SingularCodes(TrainingRows) :
              /\ ~jobs'[Len(jobs')].threw
              /\ model'.trainedAt = Some(now)
              /\ MapGet(model'.stations, c) = MapGet(TrainingBase.stations, c)
              /\ \A d \in fitCodes(TrainingRows) \ SingularCodes(TrainingRows) :
                     MapGet(model'.stations, d)
                         = Some([coef |-> ridge(pairsOf(byStationRows(TrainingRows, d)))])]_vars

\* the station codes that have coefficients in a model, None being no model
Fitted(m) == DOMAIN m.stations

FittedOpt(f) == IF IsNull(f) THEN {} ELSE Fitted(Val(f))

\* C13: no step of the server takes a station out of the in-memory model or
\* out of the model file
C13_FittedNeverShrinks ==
    [][/\ Fitted(model) \subseteq Fitted(model')
       /\ FittedOpt(modelFile) \subseteq FittedOpt(modelFile')]_vars

\* C16: a training call that throws after it fitted some station leaves the
\* model the forecasts read, and the model file, as they were
C16_FailedTrainingCommitsNothing ==
    [][(TrainingCall /\ jobs'[Len(jobs')].threw) =>
          /\ model' = model
          /\ modelFile' = modelFile]_vars

\* no current water-level observation is available: no water workbook was
\* uploaded, or it has no rows
NoWater == readOpt(manifest.water, fileRows) = << >>

\* the step that ends a POST /api/forecast
ForecastAnswered == pc = "done" /\ pc' = "idle"

\* C15: a forecast request made without water-level observations is answered
\* with a failure that carries no tables, writes no workbook and leaves the
\* stored last forecast as it was
C15_ForecastWithoutWaterAborted ==
    [][(ForecastAnswered /\ NoWater) =>
          /\ Val(response').status # 200
          /\ workbooks' = workbooks
          /\ lastForecast' = lastForecast]_vars

\* a step that writes the model file
Saved == modelFile' # modelFile

\* C18 as stated: a training handler suspended at an await leaves the server
\* free to take an upload before it resumes
C18_UploadAtSuspensionPoint ==
    (pc = "idle" /\ jobs # << >>) => UploadAllowed

\* C18 amended: no update is lost.  Every station of the model file is still
\* in the file after a save, with the entry it had or with the fit of the
\* rows that are listed at the save
C18_NoLostUpdate ==
    [][Saved =>
          \A c \in FittedOpt(modelFile) :
              /\ c \in FittedOpt(modelFile')
              /\ \/ Val(modelFile').stations[c] = Val(modelFile).stations[c]
                 \/ /\ c \in fitCodes(TrainingRows)
                    /\ Val(modelFile').stations[c].coef
                           = ridge(pairsOf(byStationRows(TrainingRows, c)))]_vars

\* two handlers that loaded the same file: the first has saved its fit of
\* station B, the second is about to save
C18_Witness ==
    /\ Len(jobs) = 2
    /\ jobs[1].seg = "trained" /\ ~jobs[1].threw /\ ~IsNull(jobs[1].obj)
    /\ jobs[2].seg = "saved"
    /\ cB \in FittedOpt(modelFile)

-----------------------------------------------------------------------------
(* claims about the model during a forecast *)

\* a step of a forecast run: forecastWaterLevels, or the handler around it
ForecastStep == pc # "idle" \/ pc' # "idle"

\* C17: no step of a forecast run, in the hydrologic or in the regression
\* branch, changes the coefficient map or trainedAt of the in-memory model,
\* or the model file
C17_ForecastLeavesModel ==
    [][ForecastStep =>
          /\ model'.stations = model.stations
          /\ model'.trainedAt = model.trainedAt
          /\ modelFile' = modelFile]_vars

C17_Witness ==
    /\ pc = "done"
    /\ branch = "hydro"
    /\ Fitted(model) # {}
    /\ ~IsNull(model.trainedAt)
    /\ rows # << >>

-----------------------------------------------------------------------------
(* claims about the historical list (SpecServer) *)

\* C30: the historical list of the manifest holds each stored path at most
\* once, so that a training run reads each workbook once
C30_HistoricalPathsDistinct ==
    \A i, j \in 1..Len(manifest.historical) :
        i # j => manifest.historical[i] # manifest.historical[j]

-----------------------------------------------------------------------------
(* claims about one routing step (SpecMusk) *)

\* the step of the edge is being taken
Routing == pc = "start" /\ pc' = "routed"

\* C23 as stated: with X = 0 and K = 0 the step returns the current inflow,
\* whatever {in, out} the edge has stored
C23_ZeroKReturnsInflow ==
    [][(Routing /\ segParams[MuskKey].K = 0 /\ segParams[MuskKey].X = 0) =>
          prev'[MuskKey].out = Qstate[cA]]_vars

\* C23 amended: with X = 0 and K = 0 the step returns the current inflow
\* plus the stored inflow minus the stored outflow, floored at zero
C23_ZeroKAddsStoredDifference ==
    [][(Routing /\ segParams[MuskKey].K = 0 /\ segParams[MuskKey].X = 0) =>
          prev'[MuskKey].out
              = Max(Qstate[cA] + prev[MuskKey].in - prev[MuskKey].out, 0)]_vars

C23_Witness ==
    /\ pc = "routed"
    /\ segParams[MuskKey].K = 0 /\ segParams[MuskKey].X = 0
    /\ prev[MuskKey].in > 0
    /\ prev[MuskKey].out # prev[MuskKey].in

-----------------------------------------------------------------------------
(* claims about the chart series *)

\* C28: in the hydrologic branch the timestamps of every station's series
\* increase strictly: no hour appears twice
C28_SeriesTimesIncrease ==
    branch = "hydro" =>
        \A c \in DOMAIN series :
            \A i, j \in 1..Len(series[c]) :
                i < j => series[c][i].t < series[c][j].t

-----------------------------------------------------------------------------
(* claims about the routing state of the edges *)

\* the key of the i-th edge of the order
KeyAt(i) == keyEdge(graph[order[i]].from_code, graph[order[i]].to_code)

\* what prev.get(edgeKey) gives the i-th edge of the order in the step about
\* to be taken: the map after the edges before it were routed
ReadAt(i) ==
    RouteEdges(graph, SubSeq(order, 1, i - 1), 1, segParams, Qstate,
               [prev |-> prev, QinAtNode |-> EmptyMap]).prev[KeyAt(i)]

\* C27: every reach record has its own routing state: in a timestep no
\* stored {in, out} is written by two edges, and each edge reads the value
\* stored at the end of the previous step
C27_EdgeReadsOwnState ==
    (pc = "loop" /\ t < Steps) =>
        /\ \A i, j \in 1..Len(order) : i # j => KeyAt(i) # KeyAt(j)
        /\ \A i \in 1..Len(order) : ReadAt(i) = prev[KeyAt(i)]

-----------------------------------------------------------------------------
(* claims about the sign of the discharges *)

\* C24: throughout a hydrologic run, from the seeded state on, every station
\* discharge and every edge's stored inflow and outflow is non-negative
C24_DischargesNonNegative ==
    branch = "hydro" =>
        /\ \A c \in DOMAIN Qstate : Qstate[c] >= 0
        /\ \A k \in DOMAIN prev : prev[k].in >= 0 /\ prev[k].out >= 0

-----------------------------------------------------------------------------
(* claims about the joins on station codes *)

\* String.prototype.toLowerCase over the letters of the runs
ToLower(str) ==
    [i \in 1..Len(str) |->
        IF \E j \in 1..Len(UpperChars) : UpperChars[j] = str[i]
        THEN LowerChars[CHOOSE j \in 1..Len(UpperChars) : UpperChars[j] = str[i]]
        ELSE str[i]]

\* two codes that differ only in surrounding whitespace or letter case
SameStation(a, b) == ToLower(Trim(a)) = ToLower(Trim(b))

\* C25: station codes are joined trimmed and case-insensitively: an observed
\* station is seeded from the rating curve, and described by the metadata
\* row, of any code that differs from its own only in whitespace or case
C25_JoinsIgnoreCaseAndSpace ==
    (branch = "hydro" /\ pc = "loop" /\ t = 0) =>
        \A c \in CodeSet(currentInputs) :
            /\ \A k \in DOMAIN Val(hydroAux).rating :
                  SameStation(k, c) =>
                     Qstate[c] = stageToQ_cm(NowRec(currentInputs, c).water_level_cm,
                                             Some(Val(hydroAux).rating[k]))
            /\ \A i \in 1..Len(settings) :
                  SameStation(settings[i].station_code, c) =>
                     SettingsGet(settings, c) = Some(settings[i])

-----------------------------------------------------------------------------
(* claims about repeated forecasts *)

\* C21: the forecast run again on the same inputs and the same model returns
\* the same hourly rows and the same daily rows whatever the time of the
\* second run: here a run one day after the first
C21_SameOutputAtAnyTime ==
    (pc = "done" /\ branch = "regression") =>
        /\ Val(result).rows =
              Sort("rows", FallbackRows(currentInputs, settings, model, now + 24, tz))
        /\ Val(result).table =
              Sort("table", FallbackTable(currentInputs, settings, model, now + 24, tz))

-----------------------------------------------------------------------------
(* claims about the order of the returned rows *)

\* C22: in both branches the returned hourly rows ascend by station code
\* and, within a station, by timestamp, and the returned daily rows ascend
\* by river and, within a river, by station
C22_ReturnedRowsSorted ==
    pc = "done" =>
        /\ \A i \in 1..(Len(Val(result).rows) - 1) :
              LET a == Val(result).rows[i]
                  b == Val(result).rows[i + 1]
                  c == localeCompare(a.station_code, b.station_code)
              IN c < 0 \/ (c = 0 /\ a.forecast_datetime <= b.forecast_datetime)
        /\ \A i \in 1..(Len(Val(result).table) - 1) :
              LET a == Val(result).table[i]
                  b == Val(result).table[i + 1]
                  c == localeCompare(a.river, b.river)
              IN c < 0 \/ (c = 0 /\ localeCompare(a.station, b.station) <= 0)

\* a hydrologic run over observations listed B before A has returned
C22_Witness ==
    /\ pc = "done"
    /\ branch = "hydro"
    /\ currentInputs = SwappedInputs
    /\ Len(Val(result).rows) = 2 * Steps
    /\ Len(Val(result).table) = 2

-----------------------------------------------------------------------------
(* claims about the order of the edges within a step *)

\* the orders the edges of the run could be processed in
EdgeOrders ==
    { [i \in 1..Len(order) |-> order[p[i]]] :
        p \in { q \in [1..Len(order) -> 1..Len(order)] :
                  \A i, j \in 1..Len(order) : q[i] = q[j] => i = j } }

====
